---- MODULE Spec2Model ----
(***************************************************************************)
(* pyHS100: SmartMultiPlug (single-relay device) and SmartStrip            *)
(* (multi-outlet strip with one SmartPlug proxy per child).                *)
(*                                                                         *)
(* Python strings are sequences of one-character strings, so that upper(), *)
(* split(':') and the id[-2:] slice are computed, not assumed.  One        *)
(* operation of the library is one action; the operators it is built from  *)
(* thread a call frame  [dev, log, calls, err, ret, failAt]  through the    *)
(* statements of the method, an exception ending the method at once.       *)
(***************************************************************************)
EXTENDS Integers, Sequences, FiniteSets

\* ------------------------------------------------------------------ bounds
MaxOutlets == 2
MaxFailAt == 3

\* --------------------------------------------------------------- constants
SWITCH_STATE_ON == <<"O", "N">>
SWITCH_STATE_OFF == <<"O", "F", "F">>
SWITCH_STATE_UNKNOWN == <<"U", "N", "K", "N", "O", "W", "N">>
FEATURE_ENERGY_METER == <<"E", "N", "E">>
emeter_type == "emeter"

NoContext == <<>>
NoParams == <<>>
NoneValue == [none |-> TRUE]
NoError == "none"

\* --------------------------------------------------------- Python strings
\* str.upper() on the characters the model uses
UpperChar(c) ==
  CASE c = "o" -> "O"
    [] c = "n" -> "N"
    [] c = "f" -> "F"
    [] c = "u" -> "U"
    [] OTHER -> c

upper(s) == [i \in DOMAIN s |-> UpperChar(s[i])]

\* str.split(sep): the list of the pieces between the separators
RECURSIVE SplitFrom(_, _, _)
SplitFrom(s, sep, piece) ==
  IF s = <<>> THEN <<piece>>
  ELSE IF Head(s) = sep THEN <<piece>> \o SplitFrom(Tail(s), sep, <<>>)
  ELSE SplitFrom(Tail(s), sep, Append(piece, Head(s)))

split(s, sep) == SplitFrom(s, sep, <<>>)

\* int() of a digit string
DigitVal(c) ==
  CASE c = "0" -> 0 [] c = "1" -> 1 [] c = "2" -> 2 [] c = "3" -> 3
    [] c = "4" -> 4 [] c = "5" -> 5 [] c = "6" -> 6 [] c = "7" -> 7
    [] c = "8" -> 8 [] c = "9" -> 9

RECURSIVE int(_)
int(s) == IF s = <<>> THEN 0 ELSE 10 * int(SubSeq(s, 1, Len(s) - 1)) + DigitVal(s[Len(s)])

\* s[-2:]
LastTwo(s) == IF Len(s) <= 2 THEN s ELSE SubSeq(s, Len(s) - 1, Len(s))

DigitChar(d) ==
  CASE d = 0 -> "0" [] d = 1 -> "1" [] d = 2 -> "2" [] d = 3 -> "3" [] d = 4 -> "4"
    [] d = 5 -> "5" [] d = 6 -> "6" [] d = 7 -> "7" [] d = 8 -> "8" [] d = 9 -> "9"

\* the id the device gives its k-th outlet: the device id followed by the index
ChildId(k) == <<"8", "0", "0", "6">> \o <<DigitChar(k \div 10), DigitChar(k % 10)>>

\* ------------------------------------------------------------------ inputs
Str(s) == [type |-> "str", chars |-> s]
NoValue == [type |-> "NoneType", chars |-> <<>>]

StateTexts ==
  { <<"O", "N">>, <<"o", "n">>, <<"O", "n">>,
    <<"O", "F", "F">>, <<"o", "f", "f">>, <<"o", "F", "f">>,
    <<>>, <<"O", "N", "N">>, <<"U", "N", "K", "N", "O", "W", "N">> }

StateValues == {Str(s) : s \in StateTexts} \cup {NoValue, [type |-> "int", chars |-> <<"1">>]}

Indices == (0 - 2) .. MaxOutlets
ChildIndices == 0 .. MaxOutlets
\* 0 and 1 are the relay codes; 2 is a code the firmware may add
RelayValues == {0, 1, 2}
FirstIds == {0, 1}
Clock == {10000}
Features == { <<"T", "I", "M">>, <<"T", "I", "M", ":", "E", "N", "E">> }

\* ------------------------------------------------------- device, transport
VARIABLES variant, dev, strip, pc, old_dev, last, log, calls

vars == <<variant, dev, strip, pc, old_dev, last, log, calls>>

Frame(d, failAt) ==
  [dev |-> d, log |-> <<>>, calls |-> <<>>, err |-> NoError, ret |-> NoneValue, failAt |-> failAt]

Raise(st, e) == [st EXCEPT !.err = e, !.ret = NoneValue]
Return(st, v) == [st EXCEPT !.ret = v]
Ok(st) == st.err = NoError

TransportCall(kind, ctx, module, action, params) ==
  [kind |-> kind, context |-> ctx, module |-> module, action |-> action, params |-> params]

\* the device's reaction to a command it receives: it stores the relay and
\* LED values it is sent; an unscoped relay command fans out to every outlet
DeviceApply(d, ctx, module, action, params) ==
  IF module = "system" /\ action = "set_relay_state" THEN
    IF ctx = NoContext
    THEN [d EXCEPT !.relay_state = params[1][2],
                   !.children = [k \in DOMAIN d.children |->
                      [d.children[k] EXCEPT !.state = params[1][2], !.relay_state = params[1][2]]]]
    ELSE [d EXCEPT !.children = [k \in DOMAIN d.children |->
                      IF d.children[k].id = ctx
                      THEN [d.children[k] EXCEPT !.state = params[1][2], !.relay_state = params[1][2]]
                      ELSE d.children[k]]]
  ELSE IF module = "system" /\ action = "set_led_off" THEN [d EXCEPT !.led_off = params[1][2]]
  ELSE d

\* self.sys_info: a fresh fetch of the raw status record on every access
sys_info(st, ctx) ==
  LET s1 == [st EXCEPT !.log = Append(st.log,
                 TransportCall("queryDeviceInfo", ctx, "system", "get_sysinfo", NoParams))]
  IN IF Len(s1.log) = st.failAt THEN Raise(s1, "SmartDeviceException")
     ELSE Return(s1, st.dev)

\* self._query_helper(module, action, params)
query_helper(st, ctx, module, action, params) ==
  LET s1 == [st EXCEPT !.log = Append(st.log,
                 TransportCall("sendCommand", ctx, module, action, params))]
  IN IF Len(s1.log) = st.failAt THEN Raise(s1, "SmartDeviceException")
     ELSE Return([s1 EXCEPT !.dev = DeviceApply(st.dev, ctx, module, action, params)], NoneValue)

\* --------------------------------------------------- SmartMultiPlug (src)
\* the three-way decoding of SmartMultiPlug.state
SmartMultiPlug_decode(relay_state) ==
  IF relay_state = 0 THEN SWITCH_STATE_OFF
  ELSE IF relay_state = 1 THEN SWITCH_STATE_ON
  ELSE SWITCH_STATE_UNKNOWN

SmartMultiPlug_state(st) ==
  LET s1 == sys_info(st, NoContext)
  IN IF ~Ok(s1) THEN s1 ELSE Return(s1, SmartMultiPlug_decode(s1.ret.relay_state))

\* turn_on that sends the relay value of turn_off
SmartMultiPlug_turn_on_off(st) ==
  query_helper(st, NoContext, "system", "set_relay_state", << <<"state", 0>> >>)

SmartMultiPlug_turn_on(st) ==
  query_helper(st, NoContext, "system", "set_relay_state", << <<"state", 1>> >>)

SmartMultiPlug_turn_off(st) ==
  query_helper(st, NoContext, "system", "set_relay_state", << <<"state", 0>> >>)

\* a setter that takes whatever is not ON for OFF
SmartMultiPlug_state_setter_lax(st, value) ==
  IF value.type # "str" THEN Raise(st, "ValueError")
  ELSE IF upper(value.chars) = SWITCH_STATE_ON THEN SmartMultiPlug_turn_on(st)
  ELSE SmartMultiPlug_turn_off(st)

SmartMultiPlug_state_setter(st, value) ==
  IF value.type # "str" THEN Raise(st, "ValueError")
  ELSE IF upper(value.chars) = SWITCH_STATE_ON THEN SmartMultiPlug_turn_on(st)
  ELSE IF upper(value.chars) = SWITCH_STATE_OFF THEN SmartMultiPlug_turn_off(st)
  ELSE Raise(st, "ValueError")

SmartMultiPlug_has_emeter(st) ==
  LET s1 == sys_info(st, NoContext)
  IN IF ~Ok(s1) THEN s1
     ELSE LET features == split(s1.ret.feature, ":")
          IN Return(s1, \E i \in DOMAIN features : features[i] = FEATURE_ENERGY_METER)

SmartMultiPlug_is_on(st) ==
  LET s1 == sys_info(st, NoContext)
  IN IF ~Ok(s1) THEN s1 ELSE Return(s1, s1.ret.relay_state # 0)

SmartMultiPlug_led(st) ==
  LET s1 == sys_info(st, NoContext)
  IN IF ~Ok(s1) THEN s1 ELSE Return(s1, (1 - s1.ret.led_off) # 0)

SmartMultiPlug_led_setter(st, state) ==
  query_helper(st, NoContext, "system", "set_led_off",
               << <<"off", IF state THEN 0 ELSE 1>> >>)

\* _get_idx_info: the first child whose id ends in the digits of `id`, else None
SmartMultiPlug_get_idx_info(st, id) ==
  LET s1 == sys_info(st, NoContext)
  IN IF ~Ok(s1) THEN s1
     ELSE LET children == s1.ret.children
              hits == {k \in DOMAIN children : id = int(LastTwo(children[k].id))}
          IN IF hits = {} THEN Return(s1, NoneValue)
             ELSE Return(s1, children[CHOOSE k \in hits : \A j \in hits : k <= j])

\* on_since(idx): the lookup is made for child 0 whatever idx is; subscripting
\* the None of a failed lookup is a TypeError
SmartMultiPlug_on_since(st, idx, now) ==
  LET s1 == SmartMultiPlug_get_idx_info(st, 0)
  IN IF ~Ok(s1) THEN s1
     ELSE IF s1.ret = NoneValue THEN Raise(s1, "TypeError")
     ELSE Return(s1, now - s1.ret.on_time)

SmartMultiPlug_state_information(st, now) ==
  LET s1 == SmartMultiPlug_led(st)
  IN IF ~Ok(s1) THEN s1
     ELSE LET s2 == SmartMultiPlug_on_since(s1, 0, now)
          IN IF ~Ok(s2) THEN s2
             ELSE Return(s2, [LED_state |-> s1.ret, On_since |-> s2.ret])

\* ------------------------------------ SmartPlug with a context (the proxy)
Reading(ctx) == <<"realtime", ctx>>

ProxyChild(record, ctx) ==
  record.children[CHOOSE k \in DOMAIN record.children : record.children[k].id = ctx]

Proxy_turn_on(st, ctx) ==
  query_helper(st, ctx, "system", "set_relay_state", << <<"state", 1>> >>)

Proxy_turn_off(st, ctx) ==
  query_helper(st, ctx, "system", "set_relay_state", << <<"state", 0>> >>)

Proxy_set_state(st, ctx, value) ==
  IF value.type # "str" THEN Raise(st, "ValueError")
  ELSE IF upper(value.chars) = SWITCH_STATE_ON THEN Proxy_turn_on(st, ctx)
  ELSE IF upper(value.chars) = SWITCH_STATE_OFF THEN Proxy_turn_off(st, ctx)
  ELSE Raise(st, "ValueError")

Proxy_is_on(st, ctx) ==
  LET s1 == sys_info(st, ctx)
  IN IF ~Ok(s1) THEN s1 ELSE Return(s1, ProxyChild(s1.ret, ctx).state # 0)

Proxy_on_since(st, ctx, now) ==
  LET s1 == sys_info(st, ctx)
  IN IF ~Ok(s1) THEN s1 ELSE Return(s1, now - ProxyChild(s1.ret, ctx).on_time)

Proxy_get_emeter_realtime(st, ctx) ==
  LET s1 == sys_info(st, ctx)
  IN IF ~Ok(s1) THEN s1
     ELSE LET features == split(s1.ret.feature, ":")
          IN IF ~(\E i \in DOMAIN features : features[i] = FEATURE_ENERGY_METER)
             THEN Return(s1, NoneValue)
             ELSE LET s2 == query_helper(s1, ctx, emeter_type, "get_realtime", NoParams)
                  IN IF ~Ok(s2) THEN s2 ELSE Return(s2, Reading(ctx))

\* ------------------------------------------------------- SmartStrip (src)
\* the outlet count the base class keeps: the length of the children list
num_children(record) == Cardinality(DOMAIN record.children)

\* __init__: one SmartPlug per child, in record order, scoped by the child's id
\* every proxy scoped by the first child's id
SmartStrip_init_first_child(record) ==
  [emeter_type |-> emeter_type,
   num_children |-> num_children(record),
   plugs |-> [plug \in 0 .. (num_children(record) - 1) |-> record.children[0].id]]

SmartStrip_init(record) ==
  [emeter_type |-> emeter_type,
   num_children |-> num_children(record),
   plugs |-> [plug \in 0 .. (num_children(record) - 1) |-> record.children[plug].id]]

raise_for_index(self, st, index) ==
  IF index \notin DOMAIN self.plugs THEN Raise(st, "SmartStripException") ELSE st

Delegate(st, index, method) ==
  [st EXCEPT !.calls = Append(st.calls, [proxy |-> index, method |-> method])]

\* the decoding in SmartStrip.state: the test for 0 is a separate `if`, so
\* its result is overwritten by the if/else on 1 that follows it
SmartStrip_decode(relay_state) ==
  LET after_first_if == IF relay_state = 0 THEN SWITCH_STATE_OFF ELSE <<>>
  IN IF relay_state = 1 THEN SWITCH_STATE_ON ELSE SWITCH_STATE_UNKNOWN

SmartStrip_state(self, st) ==
  LET s1 == sys_info(st, NoContext)
  IN IF ~Ok(s1) THEN s1
     ELSE Return(s1, [plug \in 0 .. (self.num_children - 1) |->
                        SmartStrip_decode(s1.ret.children[plug].state)])

SmartStrip_turn_on(self, st, index) ==
  IF index < 0
  THEN query_helper(st, NoContext, "system", "set_relay_state", << <<"state", 1>> >>)
  ELSE LET s1 == raise_for_index(self, st, index)
       IN IF ~Ok(s1) THEN s1
          ELSE Proxy_turn_on(Delegate(s1, index, "turn_on"), self.plugs[index])

SmartStrip_turn_off(self, st, index) ==
  IF index < 0
  THEN query_helper(st, NoContext, "system", "set_relay_state", << <<"state", 0>> >>)
  ELSE LET s1 == raise_for_index(self, st, index)
       IN IF ~Ok(s1) THEN s1
          ELSE Proxy_turn_off(Delegate(s1, index, "turn_off"), self.plugs[index])

SmartStrip_state_setter(self, st, value) ==
  IF value.type # "str" THEN Raise(st, "ValueError")
  ELSE IF upper(value.chars) = SWITCH_STATE_ON THEN SmartStrip_turn_on(self, st, 0 - 1)
  ELSE IF upper(value.chars) = SWITCH_STATE_OFF THEN SmartStrip_turn_off(self, st, 0 - 1)
  ELSE Raise(st, "ValueError")

\* set_state that assigns self.state for a valid index too
SmartStrip_set_state_whole(self, st, value, index) ==
  IF index < 0
  THEN SmartStrip_state_setter(self, st, value)
  ELSE LET s1 == raise_for_index(self, st, index)
       IN IF ~Ok(s1) THEN s1 ELSE SmartStrip_state_setter(self, s1, value)

SmartStrip_set_state(self, st, value, index) ==
  IF index < 0
  THEN SmartStrip_state_setter(self, st, value)
  ELSE LET s1 == raise_for_index(self, st, index)
       IN IF ~Ok(s1) THEN s1
          ELSE Proxy_set_state(Delegate(s1, index, "set_state"), self.plugs[index], value)

\* is_on whose delegated branch was copied from turn_on
SmartStrip_is_on_turns_on(self, st, index) ==
  IF index < 0
  THEN LET s1 == sys_info(st, NoContext)
       IN IF ~Ok(s1) THEN s1
          ELSE Return(s1, [plug \in 0 .. (self.num_children - 1) |->
                             s1.ret.children[plug].relay_state # 0])
  ELSE LET s1 == raise_for_index(self, st, index)
       IN IF ~Ok(s1) THEN s1
          ELSE Proxy_turn_on(Delegate(s1, index, "turn_on"), self.plugs[index])

SmartStrip_is_on(self, st, index) ==
  IF index < 0
  THEN LET s1 == sys_info(st, NoContext)
       IN IF ~Ok(s1) THEN s1
          ELSE Return(s1, [plug \in 0 .. (self.num_children - 1) |->
                             s1.ret.children[plug].relay_state # 0])
  ELSE LET s1 == raise_for_index(self, st, index)
       IN IF ~Ok(s1) THEN s1
          ELSE Proxy_is_on(Delegate(s1, index, "is_on"), self.plugs[index])

SmartStrip_on_since(self, st, index, now) ==
  IF index < 0
  THEN LET s1 == sys_info(st, NoContext)
       IN IF ~Ok(s1) THEN s1
          ELSE Return(s1, [plug \in 0 .. (self.num_children - 1) |->
                             s1.ret.children[plug].on_time])
  ELSE LET s1 == raise_for_index(self, st, index)
       IN IF ~Ok(s1) THEN s1
          ELSE Proxy_on_since(Delegate(s1, index, "on_since"), self.plugs[index], now)

SmartStrip_state_information(self, st, now) ==
  LET s1 == SmartMultiPlug_led(st)
  IN IF ~Ok(s1) THEN s1
     ELSE LET s2 == SmartStrip_on_since(self, s1, 0 - 1, now)
          IN IF ~Ok(s2) THEN s2
             ELSE Return(s2, [LED_state |-> s1.ret,
                              Plug_on_since |-> [n \in 1 .. self.num_children |-> s2.ret[n - 1]]])

\* the loop of get_emeter_realtime over range(num_children), from `plug` on
RECURSIVE EmeterLoop(_, _, _, _)
EmeterLoop(self, st, plug, emeter_status) ==
  IF plug >= self.num_children THEN Return(st, emeter_status)
  ELSE LET s1 == Proxy_get_emeter_realtime(
                   Delegate(st, plug, "get_emeter_realtime"), self.plugs[plug])
       IN IF ~Ok(s1) THEN s1
          ELSE EmeterLoop(self, s1, plug + 1,
                          [k \in DOMAIN emeter_status \cup {plug} |->
                             IF k = plug THEN s1.ret ELSE emeter_status[k]])

\* get_emeter_realtime without the has_emeter test
SmartStrip_get_emeter_realtime_unguarded(self, st, index) ==
  IF index < 0 THEN EmeterLoop(self, st, 0, <<>>)
  ELSE LET s1 == raise_for_index(self, st, index)
       IN IF ~Ok(s1) THEN s1
          ELSE Proxy_get_emeter_realtime(
                 Delegate(s1, index, "get_emeter_realtime"), self.plugs[index])

\* get_emeter_realtime whose loop starts at the second outlet
SmartStrip_get_emeter_realtime_skips_first(self, st, index) ==
  LET s0 == SmartMultiPlug_has_emeter(st)
  IN IF ~Ok(s0) THEN s0
     ELSE IF ~s0.ret THEN Return(s0, NoneValue)
     ELSE IF index < 0 THEN EmeterLoop(self, s0, 1, <<>>)
     ELSE LET s1 == raise_for_index(self, s0, index)
          IN IF ~Ok(s1) THEN s1
             ELSE Proxy_get_emeter_realtime(
                    Delegate(s1, index, "get_emeter_realtime"), self.plugs[index])

SmartStrip_get_emeter_realtime(self, st, index) ==
  LET s0 == SmartMultiPlug_has_emeter(st)
  IN IF ~Ok(s0) THEN s0
     ELSE IF ~s0.ret THEN Return(s0, NoneValue)
     ELSE IF index < 0 THEN EmeterLoop(self, s0, 0, <<>>)
     ELSE LET s1 == raise_for_index(self, s0, index)
          IN IF ~Ok(s1) THEN s1
             ELSE Proxy_get_emeter_realtime(
                    Delegate(s1, index, "get_emeter_realtime"), self.plugs[index])

\* ------------------------------------------------------------ state machine
NoIndex == 0 - 1
NoStrip == [emeter_type |-> emeter_type, num_children |-> 0, plugs |-> <<>>]

\* on_time as the device reports it; no time passes between two operations
OnTimeOf(id) == 3600 * (int(LastTwo(id)) + 1)

\* the children list of a device with n outlets whose ids count up from
\* `first`, or down to it
Children(n, first, up, states) ==
  [k \in 0 .. (n - 1) |->
     LET id == ChildId(IF up THEN first + k ELSE first + (n - 1) - k)
     IN [id |-> id, state |-> states[k], relay_state |-> states[k], on_time |-> OnTimeOf(id)]]

\* a single-relay device: its children mirror its relay
PlugDevices ==
  { [relay_state |-> r, led_off |-> l, feature |-> f,
     children |-> Children(n, first, up, [k \in 0 .. (n - 1) |-> r])] :
    r \in RelayValues, l \in {0, 1}, f \in Features, n \in 1 .. MaxOutlets,
    first \in FirstIds, up \in BOOLEAN }

\* a strip: every outlet has a relay value of its own
StripDevices ==
  UNION { { [relay_state |-> 0, led_off |-> l, feature |-> f,
             children |-> Children(n, first, up, states)] :
            l \in {0, 1}, f \in Features, first \in FirstIds, up \in BOOLEAN,
            states \in [0 .. (n - 1) -> RelayValues] }
          : n \in 1 .. MaxOutlets }

Init ==
  /\ variant \in {"SmartMultiPlug", "SmartStrip"}
  /\ dev \in IF variant = "SmartStrip" THEN StripDevices ELSE PlugDevices
  /\ strip = IF variant = "SmartStrip" THEN SmartStrip_init(dev) ELSE NoStrip
  /\ pc = "ready"
  /\ old_dev = dev
  /\ last = [op |-> "__init__", index |-> NoIndex, value |-> NoValue, now |-> 0,
             err |-> NoError, ret |-> NoneValue]
  /\ log = <<TransportCall("queryDeviceInfo", NoContext, "system", "get_sysinfo", NoParams)>>
  /\ calls = <<>>

\* the caller makes one call at a time: the call runs to its return or its
\* exception, and the caller takes the outcome before it makes the next call
Finish(op, index, value, now, st) ==
  /\ pc = "ready"
  /\ pc' = "returned"
  /\ dev' = st.dev
  /\ old_dev' = dev
  /\ last' = [op |-> op, index |-> index, value |-> value, now |-> now,
              err |-> st.err, ret |-> st.ret]
  /\ log' = st.log
  /\ calls' = st.calls
  /\ UNCHANGED <<variant, strip>>

Taken ==
  /\ pc = "returned"
  /\ pc' = "ready"
  /\ old_dev' = dev
  /\ last' = [op |-> "idle", index |-> NoIndex, value |-> NoValue, now |-> 0,
              err |-> NoError, ret |-> NoneValue]
  /\ log' = <<>>
  /\ calls' = <<>>
  /\ UNCHANGED <<variant, dev, strip>>

\* which transport call of the operation fails (0: none)
FailPoints == 0 .. MaxFailAt

\* led and has_emeter: the strip inherits them from its single-relay base
\* class, whose accessors are those of smartmultiplug.py
HasEmeter ==
  \E f \in FailPoints :
    Finish("has_emeter", NoIndex, NoValue, 0, SmartMultiPlug_has_emeter(Frame(dev, f)))

Led ==
  \E f \in FailPoints :
    Finish("led", NoIndex, NoValue, 0, SmartMultiPlug_led(Frame(dev, f)))

LedSet ==
  \E f \in FailPoints, b \in BOOLEAN :
    Finish("led_setter", NoIndex, [type |-> "bool", chars |-> IF b THEN <<"1">> ELSE <<"0">>], 0,
           SmartMultiPlug_led_setter(Frame(dev, f), b))

PlugState ==
  /\ variant = "SmartMultiPlug"
  /\ \E f \in FailPoints :
       Finish("plug_state", NoIndex, NoValue, 0, SmartMultiPlug_state(Frame(dev, f)))

PlugStateSet ==
  /\ variant = "SmartMultiPlug"
  /\ \E f \in FailPoints, value \in StateValues :
       Finish("plug_state_setter", NoIndex, value, 0,
              SmartMultiPlug_state_setter(Frame(dev, f), value))

PlugIsOn ==
  /\ variant = "SmartMultiPlug"
  /\ \E f \in FailPoints :
       Finish("plug_is_on", NoIndex, NoValue, 0, SmartMultiPlug_is_on(Frame(dev, f)))

PlugTurnOn ==
  /\ variant = "SmartMultiPlug"
  /\ \E f \in FailPoints :
       Finish("plug_turn_on", NoIndex, NoValue, 0, SmartMultiPlug_turn_on(Frame(dev, f)))

PlugTurnOff ==
  /\ variant = "SmartMultiPlug"
  /\ \E f \in FailPoints :
       Finish("plug_turn_off", NoIndex, NoValue, 0, SmartMultiPlug_turn_off(Frame(dev, f)))

PlugOnSince ==
  /\ variant = "SmartMultiPlug"
  /\ \E f \in FailPoints, idx \in ChildIndices, now \in Clock :
       Finish("plug_on_since", idx, NoValue, now,
              SmartMultiPlug_on_since(Frame(dev, f), idx, now))

PlugStateInformation ==
  /\ variant = "SmartMultiPlug"
  /\ \E f \in FailPoints, now \in Clock :
       Finish("plug_state_information", NoIndex, NoValue, now,
              SmartMultiPlug_state_information(Frame(dev, f), now))

StripState ==
  /\ variant = "SmartStrip"
  /\ \E f \in FailPoints :
       Finish("strip_state", NoIndex, NoValue, 0, SmartStrip_state(strip, Frame(dev, f)))

StripStateSet ==
  /\ variant = "SmartStrip"
  /\ \E f \in FailPoints, value \in StateValues :
       Finish("strip_state_setter", NoIndex, value, 0,
              SmartStrip_state_setter(strip, Frame(dev, f), value))

StripSetState ==
  /\ variant = "SmartStrip"
  /\ \E f \in FailPoints, value \in StateValues, index \in Indices :
       Finish("strip_set_state", index, value, 0,
              SmartStrip_set_state(strip, Frame(dev, f), value, index))

StripIsOn ==
  /\ variant = "SmartStrip"
  /\ \E f \in FailPoints, index \in Indices :
       Finish("strip_is_on", index, NoValue, 0, SmartStrip_is_on(strip, Frame(dev, f), index))

StripTurnOn ==
  /\ variant = "SmartStrip"
  /\ \E f \in FailPoints, index \in Indices :
       Finish("strip_turn_on", index, NoValue, 0, SmartStrip_turn_on(strip, Frame(dev, f), index))

StripTurnOff ==
  /\ variant = "SmartStrip"
  /\ \E f \in FailPoints, index \in Indices :
       Finish("strip_turn_off", index, NoValue, 0, SmartStrip_turn_off(strip, Frame(dev, f), index))

StripOnSince ==
  /\ variant = "SmartStrip"
  /\ \E f \in FailPoints, index \in Indices, now \in Clock :
       Finish("strip_on_since", index, NoValue, now,
              SmartStrip_on_since(strip, Frame(dev, f), index, now))

StripStateInformation ==
  /\ variant = "SmartStrip"
  /\ \E f \in FailPoints, now \in Clock :
       Finish("strip_state_information", NoIndex, NoValue, now,
              SmartStrip_state_information(strip, Frame(dev, f), now))

StripGetEmeterRealtime ==
  /\ variant = "SmartStrip"
  /\ \E f \in FailPoints, index \in Indices :
       Finish("strip_get_emeter_realtime", index, NoValue, 0,
              SmartStrip_get_emeter_realtime(strip, Frame(dev, f), index))

Next ==
  \/ HasEmeter \/ Led \/ LedSet
  \/ PlugState \/ PlugStateSet \/ PlugIsOn \/ PlugTurnOn \/ PlugTurnOff
  \/ PlugOnSince \/ PlugStateInformation
  \/ StripState \/ StripStateSet \/ StripSetState \/ StripIsOn
  \/ StripTurnOn \/ StripTurnOff \/ StripOnSince \/ StripStateInformation
  \/ StripGetEmeterRealtime
  \/ Taken

Spec == Init /\ [][Next]_vars

\* ================================================================== claims
Returned == pc = "returned"
NumOutlets == Cardinality(DOMAIN old_dev.children)
OutletIndices == 0 .. (NumOutlets - 1)
TransportFailed == last.err = "SmartDeviceException"

SendCommands(l) == SelectSeq(l, LAMBDA c : c.kind = "sendCommand")
QueryNoContext == TransportCall("queryDeviceInfo", NoContext, "system", "get_sysinfo", NoParams)
SetRelay(ctx, v) == TransportCall("sendCommand", ctx, "system", "set_relay_state", << <<"state", v>> >>)

\* the names the specification gives the library's exceptions
OutletRangeError == "SmartStripException"
InvalidStateError == "ValueError"
ChildNotFoundError == "ChildNotFoundError"

LowerChar(c) ==
  CASE c = "O" -> "o" [] c = "N" -> "n" [] c = "F" -> "f" [] OTHER -> c

\* text is word written in any mix of upper and lower case
MatchesIgnoringCase(value, word) ==
  /\ value.type = "str"
  /\ Len(value.chars) = Len(word)
  /\ \A i \in 1 .. Len(word) : value.chars[i] \in {word[i], LowerChar(word[i])}

IsOnToken(value) == MatchesIgnoringCase(value, <<"O", "N">>)
IsOffToken(value) == MatchesIgnoringCase(value, <<"O", "F", "F">>)
ValidToken(value) == IsOnToken(value) \/ IsOffToken(value)

\* the feature field holds the energy-meter marker as one of its colon-separated tags
HasMarker(feature) ==
  \E i, j \in 1 .. Len(feature) :
    /\ i <= j
    /\ SubSeq(feature, i, j) = <<"E", "N", "E">>
    /\ (i = 1 \/ feature[i - 1] = ":")
    /\ (j = Len(feature) \/ feature[j + 1] = ":")

IndexedStripOps ==
  {"strip_set_state", "strip_is_on", "strip_turn_on", "strip_turn_off",
   "strip_on_since", "strip_get_emeter_realtime"}

\* C1: an indexed Strip operation called with an index that is neither -1 nor
\* in [0, numOutlets) fails with OutletRangeError and sends no command.
C1_BadIndexRejected ==
  ( /\ Returned
    /\ last.op \in IndexedStripOps
    /\ last.index \notin ({0 - 1} \cup OutletIndices)
    /\ (last.op = "strip_get_emeter_realtime" => HasMarker(old_dev.feature))
    /\ (last.op = "strip_set_state" => ValidToken(last.value))
    /\ ~TransportFailed )
  => /\ last.err = OutletRangeError
     /\ SendCommands(log) = <<>>

\* C2: the Strip's state read has exactly the keys 0..numOutlets-1 and decodes
\* outlet k's relay value as the single-relay read does: 0 OFF, 1 ON, else UNKNOWN.
C2_StripStateDecodesLikePlug ==
  (Returned /\ last.op = "strip_state" /\ last.err = NoError)
  => /\ DOMAIN last.ret = OutletIndices
     /\ \A k \in OutletIndices :
          LET r == old_dev.children[k].state
          IN /\ last.ret[k] = SmartMultiPlug_decode(r)
             /\ last.ret[k] = (IF r = 0 THEN <<"O", "F", "F">>
                               ELSE IF r = 1 THEN <<"O", "N">>
                               ELSE <<"U", "N", "K", "N", "O", "W", "N">>)

StateWrite ==
  \/ last.op \in {"plug_state_setter", "strip_state_setter"}
  \/ last.op = "strip_set_state" /\ last.index = 0 - 1

\* C3: a state write whose value is no case variant of ON or OFF fails with
\* InvalidStateError, the transport has received nothing and the device is as before.
C3_InvalidStateFailsFast ==
  (Returned /\ StateWrite /\ ~ValidToken(last.value))
  => /\ last.err = InvalidStateError
     /\ log = <<>>
     /\ calls = <<>>
     /\ dev = old_dev

C3_Witness ==
  /\ Returned
  /\ last.op = "strip_set_state" /\ last.index = 0 - 1
  /\ last.value = Str(<<"U", "N", "K", "N", "O", "W", "N">>)
  /\ last.err = InvalidStateError

\* C4: Strip setState with a valid token issues exactly one set_relay_state
\* command: with index -1 on the strip itself, no context, no proxy invoked;
\* with a valid index k scoped to child k's id, through proxy k alone.
C4_SetStateOneCommand ==
  (Returned /\ last.op = "strip_set_state" /\ ValidToken(last.value))
  => LET v == IF IsOnToken(last.value) THEN 1 ELSE 0
     IN /\ last.index = 0 - 1 =>
             /\ log = <<SetRelay(NoContext, v)>>
             /\ calls = <<>>
        /\ last.index \in OutletIndices =>
             /\ log = <<SetRelay(old_dev.children[last.index].id, v)>>
             /\ calls = <<[proxy |-> last.index, method |-> "set_state"]>>

C4_Witness ==
  /\ Returned
  /\ last.op = "strip_set_state" /\ last.index = 1
  /\ last.value = Str(<<"O", "F", "F">>)
  /\ last.err = NoError
  /\ old_dev.children[0].state = 1 /\ old_dev.children[1].state = 1
  /\ dev.children[0].state = 1 /\ dev.children[1].state = 0

\* C5 as stated: on a Strip whose feature field lacks the energy-meter marker
\* getEnergyRealtime returns "unavailable" for every index and makes no
\* transport call at all.
C5_UnavailableWithoutTransport ==
  (Returned /\ last.op = "strip_get_emeter_realtime" /\ ~HasMarker(old_dev.feature))
  => /\ last.err = NoError
     /\ last.ret = NoneValue
     /\ log = <<>>

\* C5 as amended: the one transport call is the status fetch that reads the
\* feature field; when it succeeds the result is "unavailable" for every
\* index, and no command is sent and no Outlet Proxy is invoked either way.
C5_UnavailableAfterOneFetch ==
  (Returned /\ last.op = "strip_get_emeter_realtime" /\ ~HasMarker(old_dev.feature))
  => /\ log = <<QueryNoContext>>
     /\ calls = <<>>
     /\ dev = old_dev
     /\ last.err \in {NoError, "SmartDeviceException"}
     /\ ~TransportFailed => last.ret = NoneValue

C5_Witness ==
  /\ Returned
  /\ last.op = "strip_get_emeter_realtime"
  /\ ~HasMarker(old_dev.feature)
  /\ last.index = 1
  /\ NumOutlets = 2
  /\ last.err = NoError
  /\ last.ret = NoneValue

DerivedIndex(id) == int(LastTwo(id))

\* C6: single-relay onSince(childIndex) returns now minus the on_time of the
\* child whose derived index is childIndex, and fails with ChildNotFoundError
\* when no child has that derived index.
C6_OnSinceUsesRequestedChild ==
  (Returned /\ last.op = "plug_on_since" /\ ~TransportFailed)
  => LET hits == {k \in OutletIndices : DerivedIndex(old_dev.children[k].id) = last.index}
     IN IF hits = {}
        THEN last.err = ChildNotFoundError
        ELSE /\ last.err = NoError
             /\ \E k \in hits : last.ret = last.now - old_dev.children[k].on_time

\* C7: on a single-relay device whose transport stores what it is sent,
\* writing a case variant of ON (OFF) sends the one set_relay_state command
\* with 1 (0), a state read then returns ON (OFF), and writing the token
\* again sends the same command and leaves the device as it was.
C7_WriteReadRoundTrip ==
  (Returned /\ last.op = "plug_state_setter" /\ ValidToken(last.value) /\ ~TransportFailed)
  => LET v == IF IsOnToken(last.value) THEN 1 ELSE 0
     IN /\ last.err = NoError
        /\ log = <<SetRelay(NoContext, v)>>
        /\ SmartMultiPlug_state(Frame(dev, 0)).ret
             = (IF v = 1 THEN <<"O", "N">> ELSE <<"O", "F", "F">>)
        /\ old_dev.relay_state = v => dev = old_dev

C7_Witness ==
  /\ Returned
  /\ last.op = "plug_state_setter"
  /\ last.value = Str(<<"o", "n">>)
  /\ last.err = NoError
  /\ old_dev.relay_state = 1
  /\ dev = old_dev
  /\ log = <<SetRelay(NoContext, 1)>>

ProxiesMatchChildren ==
  /\ DOMAIN strip.plugs = 0 .. (Cardinality(DOMAIN dev.children) - 1)
  /\ \A k \in DOMAIN strip.plugs : strip.plugs[k] = dev.children[k].id

\* C8: the Outlet Proxies have exactly the keys 0..len(children)-1, proxy k
\* is scoped by the id of the k-th child in record order, and no operation,
\* successful or failing, changes the proxies.
C8_ProxiesFixed ==
  /\ [](variant = "SmartStrip" => ProxiesMatchChildren)
  /\ [][strip' = strip]_vars

C8_Witness ==
  /\ variant = "SmartStrip"
  /\ Returned
  /\ last.op = "strip_turn_off" /\ last.err = OutletRangeError
  /\ NumOutlets = 2
  /\ DerivedIndex(dev.children[0].id) > DerivedIndex(dev.children[1].id)
  /\ ProxiesMatchChildren

\* C9: on a Strip with the energy-meter capability getEnergyRealtime(-1)
\* delegates to the proxies 0..numOutlets-1 in that order, once each, and
\* returns their readings under exactly those keys; with a valid index k it
\* delegates to proxy k only and returns its reading; an index that fails
\* validation reaches no proxy.
C9_EmeterDelegation ==
  ( /\ Returned /\ last.op = "strip_get_emeter_realtime"
    /\ HasMarker(old_dev.feature) /\ ~TransportFailed )
  => /\ last.index = 0 - 1 =>
          /\ last.err = NoError
          /\ calls = [n \in 1 .. NumOutlets |-> [proxy |-> n - 1, method |-> "get_emeter_realtime"]]
          /\ DOMAIN last.ret = OutletIndices
          /\ \A k \in OutletIndices : last.ret[k] = Reading(strip.plugs[k])
     /\ last.index \in OutletIndices =>
          /\ last.err = NoError
          /\ calls = <<[proxy |-> last.index, method |-> "get_emeter_realtime"]>>
          /\ last.ret = Reading(strip.plugs[last.index])
     /\ last.index >= NumOutlets =>
          /\ last.err = OutletRangeError
          /\ calls = <<>>

C9_Witness ==
  /\ Returned /\ last.op = "strip_get_emeter_realtime"
  /\ HasMarker(old_dev.feature)
  /\ last.index = 0 - 1
  /\ NumOutlets = 2
  /\ last.err = NoError
  /\ Len(calls) = 2
  /\ Len(log) = 5

ReadOps ==
  {"plug_state", "plug_is_on", "led", "has_emeter", "plug_on_since", "plug_state_information",
   "strip_state", "strip_is_on", "strip_on_since", "strip_state_information"}

\* C10: a read (state, isOn, led, hasEnergyMeter, onSince, stateInformation,
\* on either variant, aggregate or indexed) sends no command that sets the
\* relay or the LED and leaves the device's relay and led_off values as they were.
C10_ReadsChangeNothing ==
  (Returned /\ last.op \in ReadOps)
  => /\ \A i \in DOMAIN log :
          ~(log[i].kind = "sendCommand" /\ log[i].action \in {"set_relay_state", "set_led_off"})
     /\ dev = old_dev

C10_Witness ==
  /\ Returned
  /\ last.op = "strip_is_on" /\ last.index = 1
  /\ last.err = NoError
  /\ last.ret = TRUE
  /\ old_dev.children[0].state = 0
  /\ Len(log) = 1

====
